---- MODULE Spec2Model ----
(***************************************************************************)
(* A model of the v2 stack aggregator of f8a-server-backbone:              *)
(*   src/rest_api.py            _stack_aggregator (the HTTP handler)       *)
(*   src/v2/stack_aggregator.py StackAggregator, Aggregator, Freetier,     *)
(*                              Registered, the module-level helpers       *)
(* One request is followed from the handler through process_request,      *)
(* the batched graph queries, get_result, the persistence write and the    *)
(* ingestion of unknown packages, to the HTTP response.  The graph store,  *)
(* the license service, the persistence layer and the ingestion trigger    *)
(* are the environment: each call to them is one step whose outcome is     *)
(* chosen nondeterministically.                                            *)
(***************************************************************************)
EXTENDS Integers, Sequences, FiniteSets, TLC

VARIABLES
    pc,                          \* position of the handler / of execute
    input_json,                  \* request.get_json()
    persist,                     \* the persist argument handed to execute
    s,                           \* the handler's envelope
    status_code,                 \* metrics_payload['status_code']
    metrics,                     \* what push_data was called with
    response,                    \* what the view function returned
    aggregator,                  \* class of the aggregator object
    normalized_packages,         \* aggregator._normalized_packages
    calls,                       \* the calls to the outside, in call order
    pkgs_with_vuln,              \* pkgs_with_vuln['result']['data']
    normalized_package_details,  \* aggregator._normalized_package_details
    output,                      \* output_dict of execute
    disable_unknown_package_flow,\* Settings().disable_unknown_package_flow
    todo,                        \* unknown packages the ingestion loop has left
    exception,                   \* the exception the handler caught
    \* the local variables of one call of a helper, followed on its own
    batcher,                     \* _get_package_details_with_vulnerabilities
    builder,                     \* _get_package_details
    classifier,                  \* _get_vulnerabilities
    denormalizer                 \* _get_denormalized_package_details

\* the variables of a request on its way through the handler
request_vars == <<pc, input_json, persist, s, status_code, metrics, response,
                  aggregator, normalized_packages, calls, pkgs_with_vuln,
                  normalized_package_details, output,
                  disable_unknown_package_flow, todo, exception>>
\* the variables of the helper calls followed on their own
frames == <<batcher, builder, classifier, denormalizer>>

vars == <<request_vars, frames>>

(***************************************************************************)
(* Bounds of the model.                                                    *)
(***************************************************************************)
MaxTransitives == 2
GREMLIN_QUERY_SIZE == 2

\* Python's None: for a record, for a string
None == [none |-> TRUE]
Null == "null"

(***************************************************************************)
(* Packages, requests.                                                     *)
(***************************************************************************)
Pkg(n, v) == [name |-> n, version |-> v]
\* the packages of the model; the first two are the ones a request
\* declares as direct dependencies
Direct == <<Pkg("a", 1), Pkg("b", 1)>>
PkgOrder == Direct \o <<Pkg("c", 2)>>

Range(seq) == {seq[i] : i \in 1..Len(seq)}
IsInjective(seq) == \A i, j \in 1..Len(seq) : seq[i] = seq[j] => i = j
SeqsUpTo(S, n) == UNION {[1..k -> S] : k \in 0..n}
Pkgs == Range(PkgOrder)
Position(p) == CHOOSE i \in 1..Len(PkgOrder) : PkgOrder[i] = p

\* Package.dict(exclude={'dependencies'}) / the Package key of an entry
PackageOf(entry) == Pkg(entry.name, entry.version)

DepSeqs(p) == {d \in SeqsUpTo(Pkgs \ {p}, MaxTransitives) : IsInjective(d)}
Entries == UNION {{[name |-> p.name, version |-> p.version, dependencies |-> d] :
                        d \in DepSeqs(p)} : p \in Range(Direct)}
\* the stacks sent: distinct direct dependencies, listed in the order of
\* Direct, each with up to MaxTransitives distinct transitives
Stacks == {st \in SeqsUpTo(Entries, Len(Direct)) :
                \A i, j \in 1..Len(st) :
                    i < j => Position(PackageOf(st[i])) < Position(PackageOf(st[j]))}

Ecosystems == {"npm", "pypi", "maven"}
RegistrationStatuses == {"registered", "freetier", "REGISTERED"}
PersistArgs == {"absent", "true", "false", "1"}

Body(eri, eco, reg, st) ==
    [external_request_id |-> eri, ecosystem |-> eco,
     registration_status |-> reg, packages |-> st]

\* the JSON bodies the endpoint is sent
InputJsons ==
    {Body("req-1", "npm", reg, st) : reg \in {"registered", "freetier"}, st \in Stacks}
    \cup {Body("req-1", "npm", reg, st) :
                reg \in RegistrationStatuses, st \in {x \in Stacks : Len(x) <= 1}}
    \cup {Body("req-1", "bogus", reg, <<>>) : reg \in RegistrationStatuses}
    \cup {Body("", "npm", "freetier", st) : st \in Stacks}
    \cup {[ecosystem |-> "npm", registration_status |-> "registered",
           packages |-> <<>>]}

Get(node, key, default) == IF key \in DOMAIN node THEN node[key] ELSE default
Merge(a, b) == [k \in DOMAIN a \cup DOMAIN b |->
                    IF k \in DOMAIN b THEN b[k] ELSE a[k]]

(***************************************************************************)
(* The graph store's data: one record per known package version, with the  *)
(* package node, the version node and the vulnerability nodes (valueMap(): *)
(* every attribute is a list of values).                                   *)
(***************************************************************************)
VulnNode(id, pvt, exploit, fixable) ==
    [snyk_vuln_id |-> <<id>>, snyk_pvt_vulnerability |-> <<pvt>>,
     cvss_scores |-> <<"7.5">>, snyk_cve_ids |-> <<"CVE-1", "CVE-2">>,
     snyk_cvss_v3 |-> <<"CVSS:3.0/AV:N">>, snyk_cwes |-> <<"CWE-79">>,
     severity |-> <<"high">>, title |-> <<"XSS">>,
     snyk_url |-> <<"https://snyk.io/vuln/" \o id>>,
     description |-> <<"text of " \o id>>, exploit |-> <<exploit>>,
     malicious |-> <<"false">>, patch_exists |-> <<"1">>,
     fixable |-> <<fixable>>, fixed_in |-> <<"9">>]

Without(node, key) == [k \in DOMAIN node \ {key} |-> node[k]]

VPublic == VulnNode("SNYK-1", FALSE, "Mature", "true")
\* VPublic with other values of the premium attributes only
VPublicAlt == VulnNode("SNYK-1", FALSE, "Unproven", "no")
VPrivate == VulnNode("SNYK-2", TRUE, "Mature", "true")
\* a node without the snyk_pvt_vulnerability and cvss_scores attributes
VBare == Without(Without(VulnNode("SNYK-3", FALSE, "Mature", "1"),
                         "snyk_pvt_vulnerability"), "cvss_scores")

VulnLists == {<<>>, <<VPublic>>, <<VPublicAlt>>, <<VPrivate>>, <<VBare, VPrivate>>}

GraphRecord(eco, p, vulns) ==
    [package |-> [name |-> <<p.name>>, ecosystem |-> <<eco>>],
     version |-> [pname |-> <<p.name>>, version |-> <<p.version>>,
                  pecosystem |-> <<eco>>],
     vuln |-> vulns]

(***************************************************************************)
(* NormalizedPackages (src/v2/normalized_packages.py): the direct          *)
(* dependencies are the top-level entries of the request, all_dependencies *)
(* are the direct ones followed by the transitive ones not seen before,    *)
(* dependency_graph maps each direct dependency to its declared            *)
(* transitives, in declared order.                                         *)
(***************************************************************************)
RECURSIVE AppendNew(_, _)
AppendNew(seq, more) ==
    IF more = <<>> THEN seq
    ELSE AppendNew(IF Head(more) \in Range(seq) THEN seq
                   ELSE Append(seq, Head(more)), Tail(more))

RECURSIVE Flatten(_)
Flatten(seqs) == IF seqs = <<>> THEN <<>> ELSE Head(seqs) \o Flatten(Tail(seqs))

NormalizedPackages(packages, ecosystem) ==
    LET directs == [i \in 1..Len(packages) |-> PackageOf(packages[i])]
        transitives == Flatten([i \in 1..Len(packages) |-> packages[i].dependencies])
    IN [ecosystem |-> ecosystem,
        direct_dependencies |-> directs,
        all_dependencies |-> AppendNew(directs, transitives),
        dependency_graph |-> [p \in Range(directs) |->
            (CHOOSE e \in Range(packages) : PackageOf(e) = p).dependencies]]

\* StackAggregatorRequest(**request): pydantic validation of the body
ValidRequest(request) ==
    /\ {"external_request_id", "ecosystem", "packages"} \subseteq DOMAIN request
    /\ request.ecosystem \in Ecosystems

(***************************************************************************)
(* The helpers of src/v2/stack_aggregator.py.                              *)
(***************************************************************************)
\* the tokens of _TRUE that an attribute read as a string can equal
_TRUE == {"true", "1"}

\* a node without the attribute taken as private
IsPrivateUnlessPublic(vulnerability_node) ==
    Head(Get(vulnerability_node, "snyk_pvt_vulnerability", <<TRUE>>))

_is_private_vulnerability(vulnerability_node) ==
    Head(Get(vulnerability_node, "snyk_pvt_vulnerability", <<FALSE>>))

_get_vuln_for_free_tier(vuln_node) ==
    [id |-> Head(vuln_node.snyk_vuln_id),
     cvss |-> Head(Get(vuln_node, "cvss_scores", <<"">>)),
     cve_ids |-> Get(vuln_node, "snyk_cve_ids", <<>>),
     cvss_v3 |-> Head(vuln_node.snyk_cvss_v3),
     cwes |-> vuln_node.snyk_cwes,
     severity |-> Head(vuln_node.severity),
     title |-> Head(vuln_node.title),
     url |-> Head(vuln_node.snyk_url)]

_get_vuln_for_registered_user(vuln_node) ==
    LET info_free_tier == _get_vuln_for_free_tier(vuln_node)
        info_for_registered_user ==
            [description |-> Head(vuln_node.description),
             exploit |-> Head(vuln_node.exploit),
             malicious |-> Head(Get(vuln_node, "malicious", <<"">>)) \in _TRUE,
             patch_exists |-> Head(Get(vuln_node, "patch_exists", <<"">>)) \in _TRUE,
             fixable |-> Head(Get(vuln_node, "fixable", <<"">>)) \in _TRUE,
             fixed_in |-> Get(vuln_node, "fixed_in", <<>>)]
    IN Merge(info_free_tier, info_for_registered_user)

\* the premium projection handed to every tier
CreatePremiumVulnerability(cls, vuln_node) ==
    _get_vuln_for_registered_user(vuln_node)

\* Freetier.create_vulnerability / Registered.create_vulnerability
create_vulnerability(cls, vuln_node) ==
    IF cls = "Registered" THEN _get_vuln_for_registered_user(vuln_node)
    ELSE _get_vuln_for_free_tier(vuln_node)

\* the loop of _get_vulnerabilities, from the state <<public, private>>
RECURSIVE VulnLoop(_, _, _)
VulnLoop(cls, vulnerability_nodes, acc) ==
    IF vulnerability_nodes = <<>> THEN acc
    ELSE LET vuln == Head(vulnerability_nodes)
         IN VulnLoop(cls, Tail(vulnerability_nodes),
                IF _is_private_vulnerability(vuln)
                THEN <<acc[1], Append(acc[2], create_vulnerability(cls, vuln))>>
                ELSE <<Append(acc[1], create_vulnerability(cls, vuln)), acc[2]>>)

_get_vulnerabilities(cls, vulnerability_nodes) ==
    VulnLoop(cls, vulnerability_nodes, <<<<>>, <<>>>>)

_get_pkg_from_graph_version_node(version_node) ==
    <<Head(Get(version_node, "pecosystem", <<"">>)),
      Pkg(Head(Get(version_node, "pname", <<"">>)),
          Head(Get(version_node, "version", <<"">>)))>>

\* Settings.snyk_ecosystem_map, Settings.snyk_package_url_format
_get_snyk_package_link(ecosystem, package) ==
    "https://snyk.io/vuln/" \o (IF ecosystem = "pypi" THEN "pip" ELSE ecosystem)
        \o ":" \o package

\* The pair (pkg, PackageDetails) of one graph record.  The github
\* statistics, latest_version and recommended_version fields are computed
\* by src/utils.py and are left out of the record.
_get_package_details(cls, component) ==
    LET version_node == Get(component, "version", <<>>)
        eco_pkg == _get_pkg_from_graph_version_node(version_node)
        ecosystem == eco_pkg[1]
        pkg == eco_pkg[2]
        vulns == _get_vulnerabilities(cls, Get(component, "vuln", <<>>))
    IN <<pkg, [name |-> pkg.name, version |-> pkg.version,
               ecosystem |-> ecosystem,
               licenses |-> Get(version_node, "declared_licenses", <<>>),
               url |-> _get_snyk_package_link(ecosystem, pkg.name),
               private_vulnerabilities |-> vulns[2],
               public_vulnerabilities |-> vulns[1],
               dependencies |-> <<>>,
               vulnerable_dependencies |-> <<>>]>>

\* dict(package_details): a later pair replaces an earlier one of the same key
get_package_details_from_graph(cls, graph_response) ==
    LET package_details == [i \in 1..Len(graph_response) |->
                                _get_package_details(cls, graph_response[i])]
        last(p) == CHOOSE i \in 1..Len(package_details) :
                      /\ package_details[i][1] = p
                      /\ \A j \in 1..Len(package_details) :
                            package_details[j][1] = p => j <= i
    IN [p \in {package_details[i][1] : i \in 1..Len(package_details)} |->
            package_details[last(p)][2]]

\* the slices dependencies[i:i + size] for i in range(0, len, size)
_get_packages_in_batch(dependencies, size) ==
    [k \in 1..((Len(dependencies) + size - 1) \div size) |->
        SubSeq(dependencies, (k - 1) * size + 1,
               IF k * size < Len(dependencies) THEN k * size ELSE Len(dependencies))]

\* dict.get(key): the entry, or None
DictGet(d, key) == IF key \in DOMAIN d THEN d[key] ELSE None

\* only the public vulnerabilities looked at
HasPublicVulnerability(pkg) ==
    pkg # None /\ pkg.public_vulnerabilities # <<>>

_has_vulnerability(pkg) ==
    pkg # None /\ (pkg.public_vulnerabilities # <<>> \/ pkg.private_vulnerabilities # <<>>)

\* the inner loop of _get_denormalized_package_details
RECURSIVE TransitiveLoop(_, _)
TransitiveLoop(details, transitives) ==
    IF transitives = <<>> THEN <<>>
    ELSE LET transitive_detail == DictGet(details, Head(transitives))
         IN (IF _has_vulnerability(transitive_detail)
             THEN <<transitive_detail>> ELSE <<>>)
            \o TransitiveLoop(details, Tail(transitives))

\* the outer loop, over dependency_graph.items() in insertion order
RECURSIVE DenormalizeLoop(_, _, _)
DenormalizeLoop(details, dependency_graph, keys) ==
    IF keys = <<>> THEN <<>>
    ELSE LET package == Head(keys)
             transitives == dependency_graph[package]
             package_detail == DictGet(details, package)
         IN (IF package_detail # None
             THEN <<[package_detail EXCEPT
                        !.dependencies = transitives,
                        !.vulnerable_dependencies =
                            TransitiveLoop(details, transitives)]>>
             ELSE <<>>)
            \o DenormalizeLoop(details, dependency_graph, Tail(keys))

_get_denormalized_package_details(np, details) ==
    DenormalizeLoop(details, np.dependency_graph, np.direct_dependencies)

\* the direct unknowns taken from all_dependencies instead
DirectUnknownFromAll(np, details) ==
    Range(np.all_dependencies) \ DOMAIN details

get_all_unknown_packages(np, details) ==
    Range(np.all_dependencies) \ DOMAIN details

_get_direct_unknown_packages(np, details) ==
    Range(np.direct_dependencies) \ DOMAIN details

\* Settings.snyk_signin_url
snyk_signin_url == "https://snyk.io/login"

\* Freetier.create_result / Registered.create_result
create_result(cls, kwargs) ==
    IF cls = "Freetier"
    THEN Merge(kwargs, [registration_link |-> snyk_signin_url])
    ELSE kwargs

\* get_result with the license analysis the license service answered
get_result(cls, request, np, details, license_analysis) ==
    LET package_details == _get_denormalized_package_details(np, details)
        unknown_dependencies == _get_direct_unknown_packages(np, details)
    IN create_result(cls,
          [external_request_id |-> request.external_request_id,
           ecosystem |-> request.ecosystem,
           registration_status |-> request.registration_status,
           analyzed_dependencies |-> package_details,
           unknown_dependencies |-> unknown_dependencies,
           license_analysis |-> license_analysis])

\* the registration status compared without regard to case
AggregatorClassAnyCase(request) ==
    IF request.registration_status \in {"registered", "REGISTERED"}
    THEN "Registered" ELSE "Freetier"

\* the class process_request instantiates
AggregatorClass(request) ==
    IF request.registration_status = "registered" THEN "Registered" ELSE "Freetier"

Audit == [started_at |-> "started", ended_at |-> "ended", version |-> "v2"]

(***************************************************************************)
(* The state machine.                                                      *)
(***************************************************************************)
\* one call to the outside: the function, its argument, whether it returned
\* normally, and what it returned
Call(fn, arg, ok, result) == [fn |-> fn, arg |-> arg, ok |-> ok, result |-> result]
CallsOf(fn) == SelectSeq(calls, LAMBDA c : c.fn = fn)
queries == CallsOf("post_gremlin")
Batches == _get_packages_in_batch(normalized_packages.all_dependencies,
                                  GREMLIN_QUERY_SIZE)

\* flask.jsonify(s) returned without a status: the response's default status
JsonifyStatus == 200

\* no helper call is followed
NoFrame == [pc |-> "none"]
NoFrames ==
    /\ batcher = NoFrame
    /\ builder = NoFrame
    /\ classifier = NoFrame
    /\ denormalizer = NoFrame

\* the handler before a request
Idle ==
    /\ pc = "idle"
    /\ input_json = None
    /\ persist = TRUE
    /\ s = None
    /\ status_code = 200
    /\ metrics = <<>>
    /\ response = None
    /\ aggregator = Null
    /\ normalized_packages = None
    /\ calls = <<>>
    /\ pkgs_with_vuln = <<>>
    /\ normalized_package_details = [p \in {} |-> None]
    /\ output = None
    /\ disable_unknown_package_flow = FALSE
    /\ todo = {}
    /\ exception = Null

Init == Idle /\ NoFrames

\* rest_api.py 130-137: the except block of the handler
Caught(e) ==
    /\ exception' = e
    /\ s' = [stack_aggregator |-> "unexpected error",
             external_request_id |-> Get(input_json, "external_request_id", Null),
             message |-> e]
    /\ status_code' = 400
    /\ pc' = "tail"

\* rest_api.py 100-122: the handler up to the call of execute
Receive ==
    /\ pc = "idle"
    /\ \E json \in InputJsons, arg \in PersistArgs :
        /\ input_json' = json
        /\ s' = [stack_aggregator |-> "failure", external_request_id |-> Null]
        /\ status_code' = 200
        /\ IF "external_request_id" \in DOMAIN json /\ json.external_request_id # ""
           THEN /\ persist' = ((IF arg = "absent" THEN "true" ELSE arg) = "true")
                /\ pc' = "process_request"
                /\ UNCHANGED response
           ELSE /\ response' = [body |-> s', status |-> JsonifyStatus]
                /\ pc' = "responded"
                /\ UNCHANGED persist
    /\ UNCHANGED <<metrics, aggregator, normalized_packages, calls, pkgs_with_vuln,
                   normalized_package_details, output,
                   disable_unknown_package_flow, todo, exception>>
    /\ UNCHANGED frames

\* process_request 422-428
ProcessRequest ==
    /\ pc = "process_request"
    /\ IF ValidRequest(input_json)
       THEN /\ normalized_packages' =
                    NormalizedPackages(input_json.packages, input_json.ecosystem)
            /\ aggregator' = AggregatorClass(input_json)
            /\ pc' = "fetch"
            /\ UNCHANGED <<s, status_code, exception>>
       ELSE /\ Caught("ValidationError")
            /\ UNCHANGED <<normalized_packages, aggregator>>
    /\ UNCHANGED <<input_json, persist, metrics, response, calls, pkgs_with_vuln,
                   normalized_package_details, output,
                   disable_unknown_package_flow, todo>>
    /\ UNCHANGED frames

\* the missing result dereferenced: the exception ends the run
BatchWithoutResultRaises(pkgs) ==
    /\ calls' = Append(calls, Call("post_gremlin", pkgs, FALSE, <<>>))
    /\ UNCHANGED pkgs_with_vuln
    /\ Caught("TypeError")

\* a batch whose query returned no result adds nothing (276: if result)
\* and the loop goes on
BatchWithoutResult(pkgs) ==
    /\ calls' = Append(calls, Call("post_gremlin", pkgs, FALSE, <<>>))
    /\ UNCHANGED <<pkgs_with_vuln, pc, s, status_code, exception>>

\* _get_package_details_with_vulnerabilities 271-277: one turn of the loop.
\* The graph answers nothing (the query failed), or the records of the
\* packages of the batch it knows.
QueryBatch ==
    /\ pc = "fetch"
    /\ Len(queries) < Len(Batches)
    /\ LET pkgs == Batches[Len(queries) + 1]
       IN \/ BatchWithoutResult(pkgs)
          \/ \E known \in SUBSET Range(pkgs), vulns \in [Range(pkgs) -> VulnLists] :
                LET found == SelectSeq(pkgs, LAMBDA p : p \in known)
                    data == [i \in 1..Len(found) |->
                                GraphRecord(normalized_packages.ecosystem,
                                            found[i], vulns[found[i]])]
                IN /\ calls' = Append(calls, Call("post_gremlin", pkgs, TRUE, data))
                   /\ pkgs_with_vuln' = pkgs_with_vuln \o data
                   /\ UNCHANGED <<pc, s, status_code, exception>>
    /\ UNCHANGED <<input_json, persist, metrics, response,
                   aggregator, normalized_packages, normalized_package_details,
                   output, disable_unknown_package_flow, todo>>
    /\ UNCHANGED frames

\* get_package_details_from_graph 191-195 and fetch_details 341
FetchDetails ==
    /\ pc = "fetch"
    /\ Len(queries) = Len(Batches)
    /\ normalized_package_details' =
            get_package_details_from_graph(aggregator, pkgs_with_vuln)
    /\ pc' = "get_result"
    /\ UNCHANGED <<input_json, persist, s, status_code, metrics, response,
                   aggregator, normalized_packages, calls, pkgs_with_vuln, output,
                   disable_unknown_package_flow, todo, exception>>
    /\ UNCHANGED frames

LicenseAnalysis == [status |-> "Successful"]

\* execute 439-444: get_result, with its call of the license service, and
\* the audit record
GetResult ==
    /\ pc = "get_result"
    /\ LET package_details == _get_denormalized_package_details(
                                  normalized_packages, normalized_package_details)
       IN \/ /\ calls' = Append(calls, Call("license_service", package_details, TRUE, LicenseAnalysis))
             /\ output' = Merge(get_result(aggregator, input_json,
                                     normalized_packages, normalized_package_details,
                                     LicenseAnalysis),
                                [_audit |-> Audit])
             /\ pc' = "persist"
             /\ UNCHANGED <<s, status_code, exception>>
          \/ /\ calls' = Append(calls, Call("license_service", package_details, FALSE, None))
             /\ Caught("license service failed")
             /\ UNCHANGED output
    /\ UNCHANGED <<input_json, persist, metrics, response, aggregator,
                   normalized_packages, pkgs_with_vuln, normalized_package_details,
                   disable_unknown_package_flow, todo>>
    /\ UNCHANGED frames

\* the result written whatever the persist argument says
PersistAlways ==
    /\ pc = "persist"
    /\ \/ /\ calls' = Append(calls, Call("persist_data_in_db", output, TRUE, None))
          /\ pc' = "ingest"
          /\ UNCHANGED <<s, status_code, exception>>
       \/ /\ calls' = Append(calls, Call("persist_data_in_db", output, FALSE, None))
          /\ Caught("persistence failed")
    /\ UNCHANGED <<input_json, persist, metrics, response, aggregator,
                   normalized_packages, pkgs_with_vuln, normalized_package_details,
                   output, disable_unknown_package_flow, todo>>
    /\ UNCHANGED frames

\* execute 445-450
Persist ==
    /\ pc = "persist"
    /\ IF persist
       THEN \/ /\ calls' = Append(calls, Call("persist_data_in_db", output, TRUE, None))
               /\ pc' = "ingest"
               /\ UNCHANGED <<s, status_code, exception>>
            \/ /\ calls' = Append(calls, Call("persist_data_in_db", output, FALSE, None))
               /\ Caught("persistence failed")
       ELSE /\ pc' = "ingest"
            /\ UNCHANGED <<calls, s, status_code, exception>>
    /\ UNCHANGED <<input_json, persist, metrics, response, aggregator,
                   normalized_packages, pkgs_with_vuln, normalized_package_details,
                   output, disable_unknown_package_flow, todo>>
    /\ UNCHANGED frames

\* initiate_unknown_package_ingestion 401-407: Settings() reads the flag,
\* the loop starts over the set of all unknown packages
IngestionStart ==
    /\ pc = "ingest"
    /\ \E flag \in BOOLEAN :
        /\ disable_unknown_package_flow' = flag
        /\ LET unknown == get_all_unknown_packages(normalized_packages,
                                                   normalized_package_details)
           IN IF flag \/ unknown = {}
              THEN pc' = "return" /\ UNCHANGED todo
              ELSE pc' = "ingestion" /\ todo' = unknown
    /\ UNCHANGED <<input_json, persist, s, status_code, metrics, response,
                   aggregator, normalized_packages, calls, pkgs_with_vuln,
                   normalized_package_details, output, exception>>
    /\ UNCHANGED frames

\* the exception of a failed call not caught in the ingestion
IngestionFailureRaised(dep) ==
    /\ todo' = todo \ {dep}
    /\ Caught("ingestion failed")

\* what a failed server_create_analysis call does to the loop: the
\* exception leaves the for loop and is logged (406-413)
IngestionFailed(dep) ==
    /\ todo' = todo \ {dep}
    /\ pc' = "return"
    /\ UNCHANGED <<s, status_code, exception>>

\* initiate_unknown_package_ingestion 407-413: one turn of the loop; a set
\* is iterated in no particular order
CreateAnalysis ==
    /\ pc = "ingestion"
    /\ \E dep \in todo :
        \/ /\ calls' = Append(calls, Call("server_create_analysis", dep, TRUE, None))
           /\ todo' = todo \ {dep}
           /\ pc' = IF todo' = {} THEN "return" ELSE "ingestion"
           /\ UNCHANGED <<s, status_code, exception>>
        \/ /\ calls' = Append(calls, Call("server_create_analysis", dep, FALSE, None))
           /\ IngestionFailed(dep)
    /\ UNCHANGED <<input_json, persist, metrics, response, aggregator,
                   normalized_packages, pkgs_with_vuln, normalized_package_details,
                   output, disable_unknown_package_flow>>
    /\ UNCHANGED frames

\* execute 455-457 and rest_api.py 122-128
Return ==
    /\ pc = "return"
    /\ s' = [aggregation |-> "success",
             external_request_id |-> output.external_request_id,
             result |-> output]
    /\ metrics' = IF "result" \in DOMAIN s' /\ "_audit" \in DOMAIN s'.result
                  THEN Append(metrics, "total_time_elapsed") ELSE metrics
    /\ pc' = "tail"
    /\ UNCHANGED <<input_json, persist, status_code, response, aggregator,
                   normalized_packages, calls, pkgs_with_vuln,
                   normalized_package_details, output,
                   disable_unknown_package_flow, todo, exception>>
    /\ UNCHANGED frames

\* rest_api.py 139-150: the second metrics push (KeyError when the envelope
\* has no result) and the response
Respond ==
    /\ pc = "tail"
    /\ metrics' = IF "result" \in DOMAIN s /\ "_audit" \in DOMAIN s.result
                  THEN Append(metrics, "get_time_delta") ELSE metrics
    /\ response' = [body |-> s, status |-> JsonifyStatus]
    /\ pc' = "responded"
    /\ UNCHANGED <<input_json, persist, s, status_code, aggregator,
                   normalized_packages, calls, pkgs_with_vuln,
                   normalized_package_details, output,
                   disable_unknown_package_flow, todo, exception>>
    /\ UNCHANGED frames

Next ==
    \/ Receive
    \/ ProcessRequest
    \/ QueryBatch
    \/ FetchDetails
    \/ GetResult
    \/ Persist
    \/ IngestionStart
    \/ CreateAnalysis
    \/ Return
    \/ Respond

Spec == Init /\ [][Next]_vars

(***************************************************************************)
(* The claims.                                                             *)
(***************************************************************************)
\* the direct dependencies the request declares
RequestDirects ==
    {PackageOf(input_json.packages[i]) : i \in 1..Len(input_json.packages)}
Vulnerable(detail) ==
    detail.public_vulnerabilities # <<>> \/ detail.private_vulnerabilities # <<>>

\* C1: once get_result has built the result, its unknown_dependencies are
\* exactly the direct dependencies of the request that are no key of the
\* package-detail map: none of them is left out, and no package of the map
\* and no transitive-only package is among them.
C1_UnknownDependenciesExact ==
    output # None =>
        output.unknown_dependencies =
            {p \in RequestDirects : p \notin DOMAIN normalized_package_details}

\* a result with an unknown direct dependency, a known direct dependency
\* and an unknown package that is only a transitive dependency
C1_Witness ==
    /\ output # None
    /\ output.unknown_dependencies # {}
    /\ \E p \in RequestDirects : p \in DOMAIN normalized_package_details
    /\ \E p \in Range(normalized_packages.all_dependencies) \ RequestDirects :
            p \notin DOMAIN normalized_package_details

\* C2: every direct dependency D that is in the detail map has exactly one
\* entry in analyzed_dependencies; the entry's dependencies are the
\* transitives the request declares for D, in declared order, and its
\* vulnerable_dependencies are the detail-map entries of exactly those
\* transitives that are in the map with a public or private vulnerability.
\* A direct dependency that is not in the map has no entry.
C2_Denormalization ==
    output # None =>
        LET details == normalized_package_details
            analyzed == output.analyzed_dependencies
        IN \A i \in 1..Len(input_json.packages) :
            LET D == PackageOf(input_json.packages[i])
                declared == input_json.packages[i].dependencies
                entries == {k \in 1..Len(analyzed) : PackageOf(analyzed[k]) = D}
            IN IF D \in DOMAIN details
               THEN /\ Cardinality(entries) = 1
                    /\ \A k \in entries :
                        /\ analyzed[k].dependencies = declared
                        /\ {PackageOf(v) : v \in Range(analyzed[k].vulnerable_dependencies)}
                             = {t \in Range(declared) :
                                    t \in DOMAIN details /\ Vulnerable(details[t])}
                        /\ \A v \in Range(analyzed[k].vulnerable_dependencies) :
                                v = details[PackageOf(v)]
               ELSE entries = {}

\* a result where one direct dependency has a transitive with only a
\* private vulnerability, another has a transitive that is known and clean,
\* or one direct dependency is missing from the map
C2_Witness ==
    /\ output # None
    /\ \E k \in 1..Len(output.analyzed_dependencies) :
        LET e == output.analyzed_dependencies[k]
        IN /\ e.vulnerable_dependencies # <<>>
           /\ \A v \in Range(e.vulnerable_dependencies) : v.public_vulnerabilities = <<>>
    /\ \E p \in RequestDirects : p \notin DOMAIN normalized_package_details

\* the positions in calls of the calls of fn, and of those that failed
Idx(fn) == {i \in 1..Len(calls) : calls[i].fn = fn}
FailedIdx(fn) == {i \in Idx(fn) : ~calls[i].ok}
Responded == pc = "responded"

\* C3: the response's status is 400 whenever the handler caught an
\* exception of the aggregation run, and 200 otherwise.
C3_StatusReflectsFailure ==
    Responded => response.status = (IF exception # Null THEN 400 ELSE 200)

\* C4: every response carries its outcome under the field aggregation, with
\* one of the three outcome values, together with the external request id.
C4_OutcomeUnderAggregation ==
    Responded =>
        /\ "aggregation" \in DOMAIN response.body
        /\ response.body.aggregation \in {"success", "failure", "unexpected error"}
        /\ "external_request_id" \in DOMAIN response.body

\* C5: when execute is about to return, createAnalysis has been called
\* exactly once for every package of all_dependencies that is not in the
\* detail map if the ingestion is not disabled, whatever the outcome of the
\* other calls, and not at all if it is disabled.
C5_OneCallPerUnknownPackage ==
    pc = "return" =>
        LET unknown == get_all_unknown_packages(normalized_packages,
                                                normalized_package_details)
            created == CallsOf("server_create_analysis")
        IN IF disable_unknown_package_flow
           THEN created = <<>>
           ELSE /\ \A p \in unknown :
                    Cardinality({i \in 1..Len(created) : created[i].arg = p}) = 1
                /\ \A i \in 1..Len(created) : created[i].arg \in unknown

\* the envelope a run returns when every ingestion call succeeds: it is
\* fixed by the request and the detail map
SuccessEnvelope ==
    [aggregation |-> "success",
     external_request_id |-> input_json.external_request_id,
     result |-> Merge(get_result(aggregator, input_json, normalized_packages,
                                 normalized_package_details, LicenseAnalysis),
                      [_audit |-> Audit])]

\* C6: after a createAnalysis call has failed, no exception has reached the
\* handler, the result is the one built before the ingestion, and the
\* envelope execute returns and the handler answers is the success
\* envelope of a run without ingestion failure.
C6_IngestionFailureSwallowed ==
    FailedIdx("server_create_analysis") # {} =>
        /\ exception = Null
        /\ pc \in {"return", "tail", "responded"}
        /\ output = SuccessEnvelope.result
        /\ pc \in {"tail", "responded"} => s = SuccessEnvelope
        /\ Responded => response.body = SuccessEnvelope

\* a response after a failed createAnalysis call that left another unknown
\* package without a call
C6_Witness ==
    /\ Responded
    /\ FailedIdx("server_create_analysis") # {}
    /\ todo # {}
    /\ response.body.aggregation = "success"

\* the packages sent in the batch queries that returned no result
LostPackages == UNION {Range(calls[i].arg) : i \in FailedIdx("post_gremlin")}
OtherFailure == FailedIdx("license_service") \cup FailedIdx("persist_data_in_db")
Succeeded == "aggregation" \in DOMAIN s /\ s.aggregation = "success"

\* C7: after a batch query returned no result, the run is not aborted by
\* it: the k-th query issued is the query of the k-th batch and, once the
\* loop is left, every batch has been queried; the merged records are the
\* data of the successful queries, concatenated in batch order; unless the
\* license service or the persistence write failed, the run answers with
\* the success envelope; and every direct dependency sent in a failed
\* batch is in unknown_dependencies and has no entry in
\* analyzed_dependencies.
C7_FailedBatchNotFatal ==
    FailedIdx("post_gremlin") # {} =>
        /\ \A k \in 1..Len(queries) : queries[k].arg = Batches[k]
        /\ pc # "fetch" => Len(queries) = Len(Batches)
        /\ pkgs_with_vuln =
              Flatten([k \in 1..Len(queries) |->
                          IF queries[k].ok THEN queries[k].result ELSE <<>>])
        /\ exception # Null => OtherFailure # {}
        /\ (Responded /\ OtherFailure = {}) =>
                /\ response.body = SuccessEnvelope
                /\ response.status = 200
        /\ output # None =>
              \A D \in RequestDirects \cap LostPackages :
                  /\ D \in output.unknown_dependencies
                  /\ \A k \in 1..Len(output.analyzed_dependencies) :
                        PackageOf(output.analyzed_dependencies[k]) # D

\* a success response of a run whose first batch query failed and whose
\* second one returned a record: a direct dependency was lost with the
\* first batch
C7_Witness ==
    /\ Responded
    /\ Succeeded
    /\ Len(queries) = 2
    /\ ~queries[1].ok
    /\ queries[2].ok /\ queries[2].result # <<>>
    /\ RequestDirects \cap LostPackages # {}
    /\ output.unknown_dependencies # {}

\* C8: the aggregator is Registered exactly when the request's
\* registrationStatus is "registered" and Freetier for any other value; a
\* Registered result has no registration link, a Freetier result has it.
C8_TierByRegistrationStatus ==
    /\ aggregator # Null =>
          (aggregator = "Registered" <=> input_json.registration_status = "registered")
    /\ aggregator # Null => aggregator \in {"Registered", "Freetier"}
    /\ output # None =>
          /\ input_json.registration_status = "registered"
                => "registration_link" \notin DOMAIN output
          /\ input_json.registration_status # "registered"
                => /\ "registration_link" \in DOMAIN output
                   /\ output.registration_link = snyk_signin_url

\* a Freetier result for a status that differs from "registered" by case only
C8_Witness ==
    /\ output # None
    /\ input_json.registration_status = "REGISTERED"
    /\ aggregator = "Freetier"
    /\ "registration_link" \in DOMAIN output

PremiumFields ==
    {"description", "exploit", "malicious", "patch_exists", "fixable", "fixed_in"}

\* the graph records with the premium attributes of every vulnerability
\* node replaced by fixed values
ErasePremium(data) ==
    [i \in 1..Len(data) |->
        [data[i] EXCEPT !.vuln =
            [j \in 1..Len(data[i].vuln) |->
                [a \in DOMAIN data[i].vuln[j] |->
                    IF a \in PremiumFields THEN <<"">> ELSE data[i].vuln[j][a]]]]]

VulnsOf(detail) ==
    Range(detail.public_vulnerabilities) \cup Range(detail.private_vulnerabilities)

\* every vulnerability entry of the result
ResultVulnerabilities ==
    UNION {VulnsOf(e) \cup UNION {VulnsOf(v) : v \in Range(e.vulnerable_dependencies)} :
                e \in Range(output.analyzed_dependencies)}

Ids(entries) == [i \in 1..Len(entries) |-> entries[i].id]
OtherClass == IF aggregator = "Registered" THEN "Freetier" ELSE "Registered"

\* C9: every vulnerability entry of a Registered result has the six premium
\* fields and no vulnerability entry of a Freetier result has any of them;
\* a Freetier result is the result of the same run on the graph data with
\* the premium attributes erased, so Freetier runs on data that differs in
\* those attributes only produce the same result; and the other tier, on
\* the same graph data, puts the same vulnerabilities into the public and
\* into the private bucket of every package.
C9_PremiumFieldsRegisteredOnly ==
    output # None =>
        /\ aggregator = "Registered" =>
              \A v \in ResultVulnerabilities : PremiumFields \subseteq DOMAIN v
        /\ aggregator = "Freetier" =>
              /\ \A v \in ResultVulnerabilities : PremiumFields \cap DOMAIN v = {}
              /\ output = Merge(get_result("Freetier", input_json, normalized_packages,
                                    get_package_details_from_graph(
                                        "Freetier", ErasePremium(pkgs_with_vuln)),
                                    LicenseAnalysis),
                                [_audit |-> Audit])
        /\ LET other == get_package_details_from_graph(OtherClass, pkgs_with_vuln)
           IN /\ DOMAIN other = DOMAIN normalized_package_details
              /\ \A p \in DOMAIN other :
                    /\ Ids(other[p].public_vulnerabilities) =
                          Ids(normalized_package_details[p].public_vulnerabilities)
                    /\ Ids(other[p].private_vulnerabilities) =
                          Ids(normalized_package_details[p].private_vulnerabilities)

\* a Freetier result with a public and a private vulnerability, built from
\* graph data whose premium attributes differ between two packages
C9_Witness ==
    /\ output # None
    /\ aggregator = "Freetier"
    /\ \E e \in Range(output.analyzed_dependencies) :
            e.public_vulnerabilities # <<>> /\ e.private_vulnerabilities # <<>>
    /\ \E i, j \in 1..Len(pkgs_with_vuln) :
            /\ pkgs_with_vuln[i].vuln = <<VPublic>>
            /\ pkgs_with_vuln[j].vuln = <<VPublicAlt>>

\* C10: the calls of a run are ordered: every graph batch query comes
\* before the call of the license service, which is made with all batches
\* queried; the persistence write is made at most once, never when persist
\* is false, and exactly once, after the result is built, when persist is
\* true and the run got past it; every ingestion call comes after the
\* result is built and after the persistence write; and after a failure of
\* get_result or of the persistence write there is no ingestion call and
\* no success envelope.
C10_OrderOfSteps ==
    /\ \A i \in Idx("license_service") :
          /\ \A j \in Idx("post_gremlin") : j < i
          /\ Cardinality(Idx("post_gremlin")) = Len(Batches)
    /\ Cardinality(Idx("license_service")) <= 1
    /\ Cardinality(Idx("persist_data_in_db")) <= 1
    /\ ~persist => Idx("persist_data_in_db") = {}
    /\ (persist /\ (pc \in {"ingest", "ingestion", "return"} \/ Succeeded)) =>
          Cardinality(Idx("persist_data_in_db") \ FailedIdx("persist_data_in_db")) = 1
    /\ \A i \in Idx("persist_data_in_db") :
          /\ output # None /\ calls[i].arg = output
          /\ \E j \in Idx("license_service") : j < i /\ calls[j].ok
          /\ \A k \in Idx("server_create_analysis") : i < k
    /\ \A k \in Idx("server_create_analysis") :
          \E j \in Idx("license_service") : j < k /\ calls[j].ok
    /\ OtherFailure # {} =>
          /\ Idx("server_create_analysis") = {}
          /\ ~Succeeded
          /\ pc \in {"tail", "responded"}
    /\ Succeeded => output # None /\ s.result = output

\* a success response of a run with two batch queries, a persistence write
\* and an ingestion call
C10_Witness ==
    /\ Responded
    /\ Succeeded
    /\ persist
    /\ Cardinality(Idx("post_gremlin")) = 2
    /\ Idx("persist_data_in_db") # {}
    /\ Idx("server_create_analysis") # {}

(***************************************************************************)
(* The batch loop of _get_package_details_with_vulnerabilities, followed   *)
(* on its own for any tuple of dependencies and any batch size.            *)
(***************************************************************************)
MaxDeps == 3
MaxBatchSize == 2

BatchPkgs == {Pkg("p", v) : v \in 1..MaxDeps}

\* dependencies[i:i + size + 1]: the slice taken one element too long
BatchSliceInclusive(dependencies, i, size) ==
    SubSeq(dependencies, i + 1,
           IF i + size + 1 < Len(dependencies) THEN i + size + 1 ELSE Len(dependencies))

\* dependencies[i:i + size], i counted from 0
BatchSlice(dependencies, i, size) ==
    SubSeq(dependencies, i + 1,
           IF i + size < Len(dependencies) THEN i + size ELSE Len(dependencies))

BatcherInit ==
    /\ Idle
    /\ builder = NoFrame /\ classifier = NoFrame /\ denormalizer = NoFrame
    /\ \E deps \in SeqsUpTo(BatchPkgs, MaxDeps), size \in 1..MaxBatchSize :
        /\ IsInjective(deps)
        /\ batcher = [pc |-> "loop", dependencies |-> deps, size |-> size, i |-> 0,
                      queries |-> <<>>, data |-> <<>>]

\* 271-277: the generator yields the next slice, the query is posted, the
\* data of an answer are added
BatchQuery ==
    /\ batcher.pc = "loop"
    /\ batcher.i < Len(batcher.dependencies)
    /\ LET pkgs == BatchSlice(batcher.dependencies, batcher.i, batcher.size)
       IN \/ batcher' = [batcher EXCEPT
                !.queries = Append(@, [packages |-> pkgs, ok |-> FALSE, data |-> <<>>]),
                !.i = @ + batcher.size]
          \/ \E known \in SUBSET Range(pkgs) :
                LET found == SelectSeq(pkgs, LAMBDA p : p \in known)
                    data == [k \in 1..Len(found) |-> GraphRecord("npm", found[k], <<>>)]
                IN batcher' = [batcher EXCEPT
                        !.queries = Append(@, [packages |-> pkgs, ok |-> TRUE,
                                               data |-> data]),
                        !.data = @ \o data,
                        !.i = @ + batcher.size]
    /\ UNCHANGED <<request_vars, builder, classifier, denormalizer>>

\* 161, 279-282: range(0, len(dependencies), size) is exhausted, the merged
\* data are returned
BatchReturn ==
    /\ batcher.pc = "loop"
    /\ batcher.i >= Len(batcher.dependencies)
    /\ batcher' = [batcher EXCEPT !.pc = "done"]
    /\ UNCHANGED <<request_vars, builder, classifier, denormalizer>>

BatcherNext == BatchQuery \/ BatchReturn

SpecBatcher == BatcherInit /\ [][BatcherNext]_vars

\* C11: when the batch loop returns for n dependencies and batch size s,
\* it has issued ceil(n/s) queries; the k-th query (k from 0) carries the
\* dependencies at the positions k*s up to min((k+1)*s, n), in their
\* order, so no query carries more than s packages and every package is in
\* exactly one query; the returned data are the data of the answers,
\* concatenated in batch order.  The slices are those of
\* _get_packages_in_batch.
C11_ContiguousBatches ==
    batcher.pc = "done" =>
        LET deps == batcher.dependencies
            n == Len(deps)
            sz == batcher.size
            q == batcher.queries
            last(k) == IF (k + 1) * sz < n THEN (k + 1) * sz ELSE n
        IN /\ Len(q) * sz >= n
           /\ Len(q) > 0 => (Len(q) - 1) * sz < n
           /\ \A k \in 0..(Len(q) - 1) :
                /\ q[k + 1].packages = [j \in 1..(last(k) - k * sz) |-> deps[k * sz + j]]
                /\ Len(q[k + 1].packages) <= sz
           /\ \A j \in 1..n :
                Cardinality({k \in 1..Len(q) : deps[j] \in Range(q[k].packages)}) = 1
           /\ batcher.data = Flatten([k \in 1..Len(q) |-> q[k].data])
           /\ [k \in 1..Len(q) |-> q[k].packages] = _get_packages_in_batch(deps, sz)

\* three dependencies in batches of two: a full batch and a shorter last
\* one, both answered with data
C11_Witness ==
    /\ batcher.pc = "done"
    /\ Len(batcher.dependencies) = 3
    /\ batcher.size = 2
    /\ Len(batcher.queries) = 2
    /\ Len(batcher.data) = 3

(***************************************************************************)
(* _get_package_details with its recommended version, followed on its own  *)
(* for one graph record.  Versions are strings; select_latest_version      *)
(* (src/utils.py) returns the greater of two versions.                     *)
(***************************************************************************)
MaxVersions == 2

\* the versions of the package the graph knows, in increasing order
Versions == <<"4.17.0", "4.17.15", "4.17.21">>
Rank(v) == IF v \in Range(Versions)
           THEN CHOOSE i \in 1..Len(Versions) : Versions[i] = v ELSE 0

select_latest_version(input_version, libio) ==
    IF Rank(input_version) >= Rank(libio) THEN input_version ELSE libio

\* the loop of get_recommended_version 52-56
RECURSIVE RecommendLoop(_, _)
RecommendLoop(versions, rec_version) ==
    IF versions = <<>> THEN rec_version
    ELSE RecommendLoop(Tail(versions),
                       select_latest_version(Head(versions), rec_version))

\* the version found returned also when it is the package's own
RecommendedVersionUnchecked(pkg, result) ==
    IF result = None \/ result.result.data = <<>> THEN Null
    ELSE RecommendLoop(result.result.data, pkg.version)

\* get_recommended_version 44-59, for the answer of post_gremlin
get_recommended_version(pkg, result) ==
    IF result = None \/ result.result.data = <<>> THEN Null
    ELSE LET rec_version == RecommendLoop(result.result.data, pkg.version)
         IN IF rec_version = pkg.version THEN Null ELSE rec_version

\* the test of 216 made on the public vulnerabilities only
AnyPublicVulnerability(public_vulns, private_vulns) == public_vulns # <<>>

\* 216: if public_vulns or private_vulns
AnyVulnerability(public_vulns, private_vulns) ==
    public_vulns # <<>> \/ private_vulns # <<>>

\* the graph records handed to _get_package_details: a package version with
\* or without vulnerabilities, its package node without the
\* latest_non_cve_version attribute, with an empty one or with a version
Components ==
    {[GraphRecord("npm", Pkg("lodash", v), vulns) EXCEPT !.package = Merge(@, lncv)] :
        v \in Range(Versions), vulns \in VulnLists,
        lncv \in {[name |-> <<"lodash">>], [latest_non_cve_version |-> <<"">>]}
                \cup {[latest_non_cve_version |-> <<w>>] : w \in Range(Versions)}}

BuilderInit ==
    /\ Idle
    /\ batcher = NoFrame /\ classifier = NoFrame /\ denormalizer = NoFrame
    /\ \E cls \in {"Freetier", "Registered"}, component \in Components :
        builder = [pc |-> "start", cls |-> cls, component |-> component,
                   warnings |-> 0, fallback |-> <<>>, details |-> None]

\* what _get_package_details returns, 223-239, with the recommended version
PackageDetailsWith(cls, component, recommended_latest_version) ==
    Merge(_get_package_details(cls, component)[2],
          [recommended_version |-> recommended_latest_version])

\* _get_package_details 210-239, up to the fallback query if there is one
BuildDetails ==
    /\ builder.pc = "start"
    /\ LET component == builder.component
           pkg_node == Get(component, "package", <<>>)
           vulns == _get_vulnerabilities(builder.cls, Get(component, "vuln", <<>>))
           precomputed == Head(Get(pkg_node, "latest_non_cve_version", <<"">>))
       IN IF AnyVulnerability(vulns[1], vulns[2])
          THEN IF precomputed = ""
               THEN builder' = [builder EXCEPT !.pc = "fallback", !.warnings = @ + 1]
               ELSE builder' = [builder EXCEPT !.pc = "done",
                        !.details = PackageDetailsWith(builder.cls, component, precomputed)]
          ELSE builder' = [builder EXCEPT !.pc = "done",
                        !.details = PackageDetailsWith(builder.cls, component, Null)]
    /\ UNCHANGED <<request_vars, batcher, classifier, denormalizer>>

\* get_recommended_version 33-59 with the answer of the graph, which is no
\* result or the versions of the package without a CVE, then 223-239
FallbackQuery ==
    /\ builder.pc = "fallback"
    /\ \E result \in {None} \cup
                {[result |-> [data |-> vs]] : vs \in SeqsUpTo(Range(Versions), MaxVersions)} :
        LET eco_pkg == _get_pkg_from_graph_version_node(builder.component.version)
            returned == get_recommended_version(eco_pkg[2], result)
        IN builder' = [builder EXCEPT
                !.pc = "done",
                !.fallback = Append(@, [eco |-> eco_pkg[1], name |-> eco_pkg[2].name,
                                        result |-> result, returned |-> returned]),
                !.details = PackageDetailsWith(builder.cls, builder.component, returned)]
    /\ UNCHANGED <<request_vars, batcher, classifier, denormalizer>>

BuilderNext == BuildDetails \/ FallbackQuery

SpecBuilder == BuilderInit /\ [][BuilderNext]_vars

\* the attribute of the package node, empty when the node has none
Precomputed ==
    IF "latest_non_cve_version" \in DOMAIN builder.component.package
    THEN builder.component.package.latest_non_cve_version[1] ELSE ""

\* C12: the fallback query is issued, once, and a warning logged, once,
\* exactly when the package has a public or private vulnerability and its
\* precomputed latest_non_cve_version is empty, and then its answer is the
\* recommended version; a non-empty precomputed value of a vulnerable
\* package is the recommended version, without a query; a package without
\* vulnerability has no recommended version and no query is issued.
C12_FallbackOnlyWhenNeeded ==
    LET vulnerable == builder.component.vuln # <<>>
        needed == vulnerable /\ Precomputed = ""
    IN /\ builder.pc = "fallback" => needed /\ builder.warnings = 1
       /\ builder.pc = "done" =>
            /\ Vulnerable(builder.details) <=> vulnerable
            /\ IF needed
               THEN /\ Len(builder.fallback) = 1 /\ builder.warnings = 1
                    /\ builder.details.recommended_version = builder.fallback[1].returned
               ELSE /\ builder.fallback = <<>> /\ builder.warnings = 0
                    /\ builder.details.recommended_version =
                            (IF vulnerable THEN Precomputed ELSE Null)

\* a package with a private vulnerability only and an empty precomputed
\* value, for which the fallback query was issued
C12_Witness ==
    /\ builder.pc = "done"
    /\ builder.details.public_vulnerabilities = <<>>
    /\ builder.details.private_vulnerabilities # <<>>
    /\ "latest_non_cve_version" \in DOMAIN builder.component.package
    /\ Precomputed = ""
    /\ Len(builder.fallback) = 1

\* the versions without a CVE the graph reported to the fallback query
CveFree ==
    IF builder.fallback[1].result = None THEN {}
    ELSE Range(builder.fallback[1].result.result.data)

\* C13: what get_recommended_version returns is the greatest of the
\* CVE-free versions the graph reported if that version is greater than the
\* package's version, and null in every other case: the query failed, no
\* version was reported, or none is greater than the package's version.
C13_RecommendedVersionGreater ==
    (builder.pc = "done" /\ builder.fallback # <<>>) =>
        LET current == builder.component.version.version[1]
            returned == builder.fallback[1].returned
            greater == {v \in CveFree : Rank(v) > Rank(current)}
        IN /\ greater = {} => returned = Null
           /\ greater # {} =>
                /\ returned \in greater
                /\ \A v \in CveFree : Rank(v) <= Rank(returned)
           /\ returned # Null => Rank(returned) > Rank(current)

\* the graph reported the package's own version and a greater one, and
\* the greater one was returned
C13_Witness ==
    /\ builder.pc = "done" /\ builder.fallback # <<>>
    /\ builder.component.version.version = <<"4.17.15">>
    /\ CveFree = {"4.17.15", "4.17.21"}
    /\ builder.fallback[1].returned = "4.17.21"

\* the graph reported only versions that are not greater, and null was
\* returned
C13_WitnessNone ==
    /\ builder.pc = "done" /\ builder.fallback # <<>>
    /\ builder.component.version.version = <<"4.17.15">>
    /\ CveFree = {"4.17.0", "4.17.15"}
    /\ builder.fallback[1].returned = Null

(***************************************************************************)
(* _get_vulnerabilities followed node by node.  Next to each output list   *)
(* the positions of the nodes it was built from are recorded, since two    *)
(* nodes can have the same projection.                                     *)
(***************************************************************************)
MaxVulns == 3

VulnNodes == {VPublic, VPublicAlt, VPrivate, VBare}

ClassifierInit ==
    /\ Idle
    /\ batcher = NoFrame /\ builder = NoFrame /\ denormalizer = NoFrame
    /\ \E cls \in {"Freetier", "Registered"},
          vulnerability_nodes \in SeqsUpTo(VulnNodes, MaxVulns) :
        classifier = [pc |-> "loop", cls |-> cls,
                      vulnerability_nodes |-> vulnerability_nodes, i |-> 0,
                      public_vulns |-> <<>>, private_vulns |-> <<>>,
                      public_from |-> <<>>, private_from |-> <<>>]

\* 201-205: one turn of the loop
ClassifyNode ==
    /\ classifier.pc = "loop"
    /\ classifier.i < Len(classifier.vulnerability_nodes)
    /\ LET i == classifier.i + 1
           vuln == classifier.vulnerability_nodes[i]
       IN IF _is_private_vulnerability(vuln)
          THEN classifier' = [classifier EXCEPT !.i = i,
                    !.private_vulns = Append(@, create_vulnerability(classifier.cls, vuln)),
                    !.private_from = Append(@, i)]
          ELSE classifier' = [classifier EXCEPT !.i = i,
                    !.public_vulns = Append(@, create_vulnerability(classifier.cls, vuln)),
                    !.public_from = Append(@, i)]
    /\ UNCHANGED <<request_vars, batcher, builder, denormalizer>>

\* 206: return public_vulns, private_vulns
ClassifyReturn ==
    /\ classifier.pc = "loop"
    /\ classifier.i >= Len(classifier.vulnerability_nodes)
    /\ classifier' = [classifier EXCEPT !.pc = "done"]
    /\ UNCHANGED <<request_vars, batcher, builder, denormalizer>>

ClassifierNext == ClassifyNode \/ ClassifyReturn

SpecClassifier == ClassifierInit /\ [][ClassifierNext]_vars

\* the positions, among the nodes seen so far, of the nodes whose flag is
\* present with a first element that is true
FlaggedPrivate ==
    {k \in 1..classifier.i :
        /\ "snyk_pvt_vulnerability" \in DOMAIN classifier.vulnerability_nodes[k]
        /\ classifier.vulnerability_nodes[k].snyk_pvt_vulnerability[1] = TRUE}

Increasing(seq) == \A j, k \in 1..Len(seq) : j < k => seq[j] < seq[k]

\* C14: of the nodes seen so far, the private list holds the projections
\* of exactly those whose flag (first element, false when the attribute is
\* absent) is true and the public list those of all the others, every node
\* once and in one list only, each list in the order of the input; at the
\* return this is what _get_vulnerabilities gives for the whole input.
C14_VulnerabilityPartition ==
    classifier.pc # "none" =>
        LET nodes == classifier.vulnerability_nodes
            cls == classifier.cls
        IN /\ Range(classifier.private_from) = FlaggedPrivate
           /\ Range(classifier.public_from) = (1..classifier.i) \ FlaggedPrivate
           /\ Increasing(classifier.private_from)
           /\ Increasing(classifier.public_from)
           /\ Len(classifier.private_vulns) = Len(classifier.private_from)
           /\ Len(classifier.public_vulns) = Len(classifier.public_from)
           /\ Len(classifier.private_vulns) + Len(classifier.public_vulns) = classifier.i
           /\ \A k \in 1..Len(classifier.private_from) :
                classifier.private_vulns[k] =
                    create_vulnerability(cls, nodes[classifier.private_from[k]])
           /\ \A k \in 1..Len(classifier.public_from) :
                classifier.public_vulns[k] =
                    create_vulnerability(cls, nodes[classifier.public_from[k]])
           /\ classifier.pc = "done" =>
                /\ classifier.i = Len(nodes)
                /\ _get_vulnerabilities(cls, nodes) =
                        <<classifier.public_vulns, classifier.private_vulns>>

\* a node without the flag, a private node and a public node, classified
C14_Witness ==
    /\ classifier.pc = "done"
    /\ classifier.vulnerability_nodes = <<VBare, VPrivate, VPublic>>
    /\ classifier.public_from = <<1, 3>>
    /\ classifier.private_from = <<2>>

(***************************************************************************)
(* _get_denormalized_package_details followed over objects.  The map of    *)
(* package details holds references: heap is the sequence of the           *)
(* PackageDetails objects, map gives each analysed package the position of *)
(* its object, and vulnerable_dependencies of an object filled by the loop *)
(* holds positions of objects.                                             *)
(***************************************************************************)
\* the vulnerability lists of the packages of the map
DetailVulns == {<<>>, <<VPublic>>, <<VPrivate>>}

\* no copy made: the object of the map itself
CopyShared(heap, id) == <<heap, id>>

\* PackageDetails.copy() 290, 297: a new object with the same field values
copy(heap, id) == <<Append(heap, heap[id]), Len(heap) + 1>>

\* the inner loop 294-300, from the objects and the list built so far
RECURSIVE CopyTransitives(_, _, _, _)
CopyTransitives(heap, map, transitives, transitive_details) ==
    IF transitives = <<>> THEN <<heap, transitive_details>>
    ELSE LET transitive == Head(transitives)
             transitive_detail == IF transitive \in DOMAIN map
                                  THEN heap[map[transitive]] ELSE None
         IN IF _has_vulnerability(transitive_detail)
            THEN LET copied == copy(heap, map[transitive])
                 IN CopyTransitives(copied[1], map, Tail(transitives),
                                    Append(transitive_details, copied[2]))
            ELSE CopyTransitives(heap, map, Tail(transitives), transitive_details)

DenormalizerInit ==
    /\ Idle
    /\ batcher = NoFrame /\ builder = NoFrame /\ classifier = NoFrame
    /\ \E st \in Stacks, cls \in {"Freetier", "Registered"} :
        LET np == NormalizedPackages(st, "npm")
        IN \E known \in SUBSET Range(np.all_dependencies) :
            \E vulns \in [known -> DetailVulns] :
                LET Known(p) == p \in known
                    order == SelectSeq(PkgOrder, Known)
                    heap == [i \in 1..Len(order) |->
                                _get_package_details(cls,
                                    GraphRecord("npm", order[i], vulns[order[i]]))[2]]
                    map == [p \in known |->
                                CHOOSE i \in 1..Len(order) : order[i] = p]
                IN denormalizer =
                    [pc |-> "loop", np |-> np, heap |-> heap, map |-> map,
                     before |-> [p \in known |-> heap[map[p]]],
                     k |-> 0, package_details |-> <<>>]

\* 287-303: one turn of the outer loop
DenormalizeEntry ==
    /\ denormalizer.pc = "loop"
    /\ denormalizer.k < Len(denormalizer.np.direct_dependencies)
    /\ LET package == denormalizer.np.direct_dependencies[denormalizer.k + 1]
           transitives == denormalizer.np.dependency_graph[package]
           map == denormalizer.map
       IN IF package \in DOMAIN map
          THEN LET copied == copy(denormalizer.heap, map[package])
                   package_detail == copied[2]
                   inner == CopyTransitives(copied[1], map, transitives, <<>>)
               IN denormalizer' = [denormalizer EXCEPT
                    !.k = @ + 1,
                    !.heap = [inner[1] EXCEPT ![package_detail] =
                                [@ EXCEPT !.dependencies = transitives,
                                          !.vulnerable_dependencies = inner[2]]],
                    !.package_details = Append(@, package_detail)]
          ELSE denormalizer' = [denormalizer EXCEPT !.k = @ + 1]
    /\ UNCHANGED <<request_vars, batcher, builder, classifier>>

\* 304: return package_details
DenormalizeReturn ==
    /\ denormalizer.pc = "loop"
    /\ denormalizer.k >= Len(denormalizer.np.direct_dependencies)
    /\ denormalizer' = [denormalizer EXCEPT !.pc = "done"]
    /\ UNCHANGED <<request_vars, batcher, builder, classifier>>

DenormalizerNext == DenormalizeEntry \/ DenormalizeReturn

SpecDenormalizer == DenormalizerInit /\ [][DenormalizerNext]_vars

\* the value of an object of the analysed list, its vulnerable
\* dependencies being objects themselves
Deref(heap, id) ==
    [heap[id] EXCEPT !.vulnerable_dependencies =
                        [j \in 1..Len(@) |-> heap[@[j]]]]

\* C15: at every point of the denormalization and after it, every entry of
\* the map of package details is the object it was and has the value it
\* had, empty dependencies and vulnerable dependencies included, also for
\* a package that is a direct dependency and a transitive of another one;
\* the objects of the analysed list are copies, not objects of the map,
\* and they are the ones filled in.
C15_MapUnchangedByDenormalization ==
    denormalizer.pc # "none" =>
        LET heap == denormalizer.heap
            map == denormalizer.map
            mapped == {map[p] : p \in DOMAIN map}
            analysed == denormalizer.package_details
        IN /\ DOMAIN map = DOMAIN denormalizer.before
           /\ \A p \in DOMAIN map :
                /\ heap[map[p]] = denormalizer.before[p]
                /\ heap[map[p]].dependencies = <<>>
                /\ heap[map[p]].vulnerable_dependencies = <<>>
           /\ IsInjective(analysed)
           /\ \A j \in 1..Len(analysed) :
                /\ analysed[j] \notin mapped
                /\ \A id \in Range(heap[analysed[j]].vulnerable_dependencies) :
                        id \notin mapped /\ id \notin Range(analysed)
           /\ denormalizer.pc = "done" =>
                /\ [j \in 1..Len(analysed) |-> Deref(heap, analysed[j])] =
                        _get_denormalized_package_details(denormalizer.np,
                                                          denormalizer.before)
                /\ \A j \in 1..Len(analysed) :
                        LET package == Pkg(heap[analysed[j]].name,
                                           heap[analysed[j]].version)
                        IN heap[analysed[j]].dependencies =
                                denormalizer.np.dependency_graph[package]

\* two analysed direct dependencies, the second one a vulnerable
\* transitive of the first and with a transitive of its own
C15_Witness ==
    /\ denormalizer.pc = "done"
    /\ Len(denormalizer.package_details) = 2
    /\ Direct[2] \in Range(denormalizer.np.dependency_graph[Direct[1]])
    /\ \E id \in Range(denormalizer.heap[denormalizer.package_details[1]].vulnerable_dependencies) :
            denormalizer.heap[id].name = Direct[2].name
    /\ denormalizer.heap[denormalizer.package_details[2]].dependencies # <<>>

====
